---- MODULE Spec2Model ----
(***************************************************************************)
(* ROI computation and persistence engine of roi-calculator:               *)
(*   utils/roi_calculator.py   ConcreteROICalculator (adapter + formulas)  *)
(*   utils/database_storage.py ROIStorage (table roi_inputs)               *)
(*                                                                         *)
(* Python values are tagged records, so that None, numbers and strings can *)
(* be told apart.  Numbers are exact rationals n/d in lowest terms: the    *)
(* model abstracts IEEE doubles to the reals they approximate.             *)
(***************************************************************************)
EXTENDS Integers, Sequences, FiniteSets, TLC

VARIABLES inputs, call, edits, rows, connection, now, last, session, pass

vars == <<inputs, call, edits, rows, connection, now, last, session, pass>>
calcVars == <<inputs, call, edits>>
storeVars == <<rows, connection, now, last>>
appVars == <<session, pass>>

(***************************************************************************)
(* Bounds                                                                  *)
(***************************************************************************)
MaxEdits == 2
MaxClock == 3

(***************************************************************************)
(* Python values                                                           *)
(***************************************************************************)
None == [t |-> "none"]
Inf == [t |-> "inf"]
TypeError == [t |-> "error"]
Str(s) == [t |-> "str", s |-> s]

RECURSIVE Gcd(_, _)
Gcd(a, b) == IF b = 0 THEN a ELSE Gcd(b, a % b)

Abs(n) == IF n < 0 THEN -n ELSE n

\* the rational n/d, d > 0, in lowest terms
Num(n, d) ==
    LET g == Gcd(Abs(n), d)
    IN  [t |-> "num", n |-> n \div g, d |-> d \div g]

Whole(n) == Num(n, 1)

IsNum(v) == v.t = "num"

RAdd(a, b) == Num(a.n * b.d + b.n * a.d, a.d * b.d)
RSub(a, b) == Num(a.n * b.d - b.n * a.d, a.d * b.d)
RMul(a, b) ==
    LET g1 == Gcd(Abs(a.n), b.d)
        g2 == Gcd(Abs(b.n), a.d)
    IN  Num((a.n \div g1) * (b.n \div g2), (a.d \div g2) * (b.d \div g1))
\* a / b for b > 0
RDiv(a, b) == RMul(a, [t |-> "num", n |-> b.d, d |-> b.n])
RLt(a, b) == a.n * b.d < b.n * a.d
RLe(a, b) == a.n * b.d <= b.n * a.d
RMax(a, b) == IF RLt(a, b) THEN b ELSE a

\* Python truthiness of a value: None, 0 and '' are falsy
Truthy(v) ==
    CASE v.t = "none" -> FALSE
      [] v.t = "num" -> v.n # 0
      [] v.t = "str" -> v.s # ""
      [] OTHER -> TRUE

\* Python "a or b"
Or(a, b) == IF Truthy(a) THEN a ELSE b

\* dict.get(key) and dict.get(key, default)
Get(m, k) == IF k \in DOMAIN m THEN m[k] ELSE None
\* a variation of GetDefault: a null value counts as a missing key
GetDefault_nullAsMissing(m, k, dflt) ==
    IF k \in DOMAIN m /\ m[k] # None THEN m[k] ELSE dflt
GetDefault(m, k, dflt) == IF k \in DOMAIN m THEN m[k] ELSE dflt

\* dict.update
Update(a, b) ==
    [k \in DOMAIN a \cup DOMAIN b |-> IF k \in DOMAIN b THEN b[k] ELSE a[k]]

\* arithmetic on Python values: an operand that is not a number raises
Mul(a, b) == IF IsNum(a) /\ IsNum(b) THEN RMul(a, b) ELSE TypeError
Add(a, b) == IF IsNum(a) /\ IsNum(b) THEN RAdd(a, b) ELSE TypeError
Sub(a, b) == IF IsNum(a) /\ IsNum(b) THEN RSub(a, b) ELSE TypeError
DivBy(a, k) == IF IsNum(a) THEN RDiv(a, Whole(k)) ELSE TypeError

(***************************************************************************)
(* ConcreteROICalculator                                                   *)
(***************************************************************************)
blended_hourly_rate == Whole(100)

NumericKeys ==
    {"labor_impact_hours", "labor_cost_hourly", "cost_avoidance_annual",
     "revenue_impact_annual", "time_to_value_hours",
     "implementation_cost_hourly"}
ScoreKeys == {"risk_mitigation_score", "customer_reach_score", "confidence_level"}
FieldKeys == NumericKeys \cup ScoreKeys

ApiKeys ==
    {"api_systems_involved", "api_roi_estimate", "api_task_frequency",
     "api_task_volume", "api_importance", "api_description",
     "api_current_process", "api_teams_involved"}

EmptyList == [t |-> "list", len |-> 0]
EmptyDict == [t |-> "dict", len |-> 0]

\* the raw key an api_* field is copied from
ApiSource(k) ==
    CASE k = "api_systems_involved" -> "systems_involved"
      [] k = "api_roi_estimate" -> "roi_estimate"
      [] k = "api_task_frequency" -> "task_frequency"
      [] k = "api_task_volume" -> "task_volume"
      [] k = "api_importance" -> "importance"
      [] k = "api_description" -> "description"
      [] k = "api_current_process" -> "current_process"
      [] k = "api_teams_involved" -> "teams_involved"

\* the default of use_case_data.get(key, default) for the api_* copies
ApiDefault(k) ==
    CASE k \in {"api_systems_involved", "api_teams_involved"} -> EmptyList
      [] k = "api_roi_estimate" -> EmptyDict
      [] OTHER -> Str("")

\* a mutation of input_default: the hours estimate is read from the raw record
input_default_fromRaw(use_case_data, k) ==
    CASE k = "labor_impact_hours" -> GetDefault(use_case_data, k, None)
      [] k \in {"labor_cost_hourly", "implementation_cost_hourly"} ->
            blended_hourly_rate
      [] OTHER -> None

\* lines 50-68: the numeric and score fields of the adapter's record; the
\* raw record is not consulted
input_default(use_case_data, k) ==
    CASE k \in {"labor_cost_hourly", "implementation_cost_hourly"} ->
            blended_hourly_rate
      [] OTHER -> None

extract_roi_inputs_from_api(use_case_data) ==
    [k \in {"title", "business_unit"} \cup FieldKeys \cup ApiKeys |->
        CASE k = "title" -> GetDefault(use_case_data, "title", Str(""))
          [] k = "business_unit" ->
                GetDefault(use_case_data, "business_unit", Str(""))
          [] k \in FieldKeys -> input_default(use_case_data, k)
          [] OTHER -> GetDefault(use_case_data, ApiSource(k), ApiDefault(k))]

\* the divisor floor of lines 100 and 103
Epsilon == Num(1, 100)

\* line 87: inputs.get('labor_impact_hours') or 0
fte_hours_saved(inp) == Or(Get(inp, "labor_impact_hours"), Whole(0))
\* a mutation of avg_hourly_rate: an unset rate defaults to 0 like the other fields
avg_hourly_rate_zeroDefault(inp) == Or(Get(inp, "labor_cost_hourly"), Whole(0))
\* line 88: inputs.get('labor_cost_hourly') or self.blended_hourly_rate
avg_hourly_rate(inp) == Or(Get(inp, "labor_cost_hourly"), blended_hourly_rate)
\* line 89
costs_saved_annual(inp) == Or(Get(inp, "cost_avoidance_annual"), Whole(0))
\* line 90
revenue_generated_annual(inp) == Or(Get(inp, "revenue_impact_annual"), Whole(0))
\* line 91
time_to_value_hours(inp) == Or(Get(inp, "time_to_value_hours"), Whole(0))

\* line 94
monthly_benefit(inp) ==
    Add(Add(Mul(fte_hours_saved(inp), avg_hourly_rate(inp)),
            DivBy(costs_saved_annual(inp), 12)),
        DivBy(revenue_generated_annual(inp), 12))

\* line 97
implementation_cost(inp) == Mul(time_to_value_hours(inp), avg_hourly_rate(inp))

\* a mutation of payback_months: a zero implementation cost also counts as "never"
payback_months_bothGuards(mb, ic) ==
    IF RLt(Whole(0), mb) /\ RLt(Whole(0), ic)
    THEN RDiv(ic, RMax(mb, Epsilon))
    ELSE Inf

\* line 100, for numbers mb and ic
payback_months(mb, ic) ==
    IF RLt(Whole(0), mb) THEN RDiv(ic, RMax(mb, Epsilon)) ELSE Inf

\* line 103, for numbers mb and ic
annual_roi(mb, ic) ==
    IF RLt(Whole(0), ic)
    THEN RMul(RDiv(RSub(RMul(Whole(12), mb), ic), RMax(ic, Epsilon)), Whole(100))
    ELSE Whole(0)

\* lines 106-108
confidence(inp) == Or(Get(inp, "confidence_level"), Whole(0))
risk_score(inp) == Or(Get(inp, "risk_mitigation_score"), Whole(0))
customer_reach(inp) == Or(Get(inp, "customer_reach_score"), Whole(0))

\* a mutation of strategic_value: the sum is not averaged
strategic_value_sum(inp) ==
    Add(Add(risk_score(inp), customer_reach(inp)), confidence(inp))

\* line 112
strategic_value(inp) ==
    DivBy(Add(Add(risk_score(inp), customer_reach(inp)), confidence(inp)), 3)

\* The whole method.  An arithmetic operand that is not a number raises
\* TypeError out of the method; otherwise the result mapping is returned.
calculate_roi_with_inputs(inp) ==
    LET mb == monthly_benefit(inp)
        ic == implementation_cost(inp)
        sv == strategic_value(inp)
    IN
    IF ~IsNum(mb) \/ ~IsNum(ic) \/ ~IsNum(sv)
    THEN TypeError
    ELSE
    [t |-> "result",
     labor_savings_monthly |-> Mul(fte_hours_saved(inp), avg_hourly_rate(inp)),
     cost_avoidance_monthly |-> DivBy(costs_saved_annual(inp), 12),
     revenue_monthly |-> DivBy(revenue_generated_annual(inp), 12),
     monthly_benefit |-> mb,
     annual_benefit |-> Mul(mb, Whole(12)),
     implementation_cost |-> ic,
     payback_period_months |-> payback_months(mb, ic),
     annual_roi_percentage |-> annual_roi(mb, ic),
     confidence_score |-> confidence(inp),
     risk_mitigation_score |-> risk_score(inp),
     customer_reach_score |-> customer_reach(inp),
     strategic_value |-> sv,
     time_to_value_hours |-> time_to_value_hours(inp),
     fte_hours_saved |-> fte_hours_saved(inp),
     costs_saved_annual |-> costs_saved_annual(inp),
     revenue_generated_annual |-> revenue_generated_annual(inp)]

(***************************************************************************)
(* The formula engine and the adapter as a state machine: a working input  *)
(* record is produced by the adapter or supplied by a caller, edited field *)
(* by field, and passed to calculate_roi_with_inputs.                      *)
(***************************************************************************)
NoCall == [op |-> "none"]
EmptyMapping == [k \in {} |-> None]

\* raw use-case mappings handed to the adapter
RawRecords ==
    { EmptyMapping,
      [title |-> Str("Invoice matching"), business_unit |-> Str("Finance")],
      [title |-> Str("Lead routing"),
       roi_estimate |-> Str("$50k per year"),
       task_frequency |-> Str("daily"),
       labor_impact_hours |-> Whole(40),
       labor_cost_hourly |-> Whole(75),
       confidence_level |-> Whole(5)],
      [title |-> Whole(7), business_unit |-> None,
       systems_involved |-> Str("Salesforce")] }

\* the input record of the worked example (all fields set)
ExampleInputs ==
    [labor_impact_hours |-> Whole(10), labor_cost_hourly |-> Whole(50),
     cost_avoidance_annual |-> Whole(1200), revenue_impact_annual |-> Whole(2400),
     time_to_value_hours |-> Whole(20), implementation_cost_hourly |-> Whole(100),
     risk_mitigation_score |-> Whole(4), customer_reach_score |-> Whole(5),
     confidence_level |-> Whole(3)]

\* the values a caller may put into a field of the input record
FieldValues(k) ==
    CASE k = "labor_impact_hours" -> {None, Whole(0), Whole(10)}
      [] k = "labor_cost_hourly" -> {None, Whole(0), Whole(50)}
      [] k = "cost_avoidance_annual" -> {None, Whole(0), Num(3, 50), Whole(1200)}
      [] k = "revenue_impact_annual" -> {None, Whole(0), Whole(2400)}
      [] k = "time_to_value_hours" -> {None, Whole(0), Num(1, 20000), Whole(20)}
      [] k = "implementation_cost_hourly" -> {None, Whole(0), Whole(50)}
      [] OTHER -> {None, Whole(1), Whole(5)}

InitStore ==
    /\ rows = {}
    /\ connection = "open"
    /\ now = 0
    /\ last = NoCall

\* a browser session before its first render pass
\* passes counts the render passes made so far
NoPass ==
    [op |-> "none", first_failed |-> FALSE, edited |-> {}, passes |-> 0,
     rerun |-> FALSE]
\* no calculator widget has state under its key
NoWidgets == [title |-> 0, values |-> EmptyMapping]
\* st.session_state of a new browser session
NewState ==
    [has_roi_inputs |-> FALSE, roi_inputs |-> EmptyMapping,
     widgets |-> NoWidgets]
InitSession ==
    /\ session = NewState
    /\ pass = NoPass

InitCalc ==
    /\ inputs \in {EmptyMapping, ExampleInputs}
    /\ call = NoCall
    /\ edits = 0
    /\ InitStore
    /\ InitSession

\* JSON payloads a response with status 200 may carry: a list, an object
\* (t = "dict", its members in d) or a scalar
UseCaseA == [t |-> "dict", d |-> [title |-> Str("Invoice matching")]]
UseCaseB == [t |-> "dict", d |-> [title |-> Str("Lead routing")]]
List(items) == [t |-> "list", items |-> items]
Payloads ==
    { List(<<UseCaseA, UseCaseB>>),
      List(<< >>),
      [t |-> "dict", d |-> [data |-> List(<<UseCaseA>>)]],
      [t |-> "dict", d |-> [use_cases |-> List(<<UseCaseB>>)]],
      [t |-> "dict", d |-> [items |-> List(<<UseCaseA>>),
                            results |-> List(<<UseCaseB>>)]],
      [t |-> "dict", d |-> [data |-> Str("see results"),
                            results |-> List(<<UseCaseA>>)]],
      [t |-> "dict", d |-> [data |-> List(<< >>),
                            items |-> List(<<UseCaseA>>)]],
      [t |-> "dict", d |-> [error |-> Str("quota exceeded")]],
      [t |-> "dict", d |-> [data |-> Str("none"), count |-> Whole(0)]],
      [t |-> "dict", d |-> EmptyMapping],
      UseCaseA,
      Str("OK"), Whole(7), None }

\* what requests.get(...) and response.json() come to: a status with a
\* decoded payload, or one of the exceptions the method catches
Responses ==
    [kind : {"status"}, status_code : {200}, data : Payloads]
    \cup [kind : {"status"}, status_code : {401, 403, 404, 500}, data : {None}]
    \cup [kind : {"Timeout", "ConnectionError", "RequestException",
                  "JSONDecodeError"},
          status_code : {0}, data : {None}]

\* line 47
wrapper_keys == <<"data", "use_cases", "results", "items">>

\* lines 47-49: the first key of the loop whose value is a list, 0 if none
first_list_key(d) ==
    LET hits == {i \in 1..Len(wrapper_keys) :
                    wrapper_keys[i] \in DOMAIN d /\ d[wrapper_keys[i]].t = "list"}
    IN  IF hits = {} THEN 0 ELSE CHOOSE i \in hits : \A j \in hits : i <= j

\* lines 43-54: the handling of the decoded payload
parse_payload(data) ==
    IF data.t = "list" THEN data
    ELSE IF data.t = "dict"
    THEN IF first_list_key(data.d) # 0
         THEN data.d[wrapper_keys[first_list_key(data.d)]]
         ELSE List(<<data>>)
    ELSE None

\* api_client.fetch_use_cases(): one request, no loop around it
fetch_use_cases(response) ==
    IF response.kind = "status" /\ response.status_code = 200
    THEN parse_payload(response.data)
    ELSE None

\* the dashboard fetches the use cases
Fetch(response) ==
    /\ edits = 0
    /\ call' = [op |-> "fetch", arg |-> response, requests |-> 1,
                result |-> fetch_use_cases(response)]
    /\ call' # call
    /\ UNCHANGED <<inputs, edits, storeVars, appVars>>

\* roi_calculator.extract_roi_inputs_from_api(use_case_data) on first view
Extract(raw) ==
    /\ edits = 0
    /\ call = NoCall
    /\ inputs' = extract_roi_inputs_from_api(raw)
    /\ call' = [op |-> "extract", arg |-> raw, result |-> inputs']
    /\ UNCHANGED <<edits, storeVars, appVars>>

\* the caller sets one field of the working record
SetField(k, v) ==
    /\ edits < MaxEdits
    /\ inputs' = Update(inputs, [x \in {k} |-> v])
    /\ edits' = edits + 1
    /\ call' = NoCall
    /\ UNCHANGED <<storeVars, appVars>>

\* the caller passes a record that lacks one key
RemoveField(k) ==
    /\ edits < MaxEdits
    /\ k \in DOMAIN inputs
    /\ inputs' = [x \in DOMAIN inputs \ {k} |-> inputs[x]]
    /\ edits' = edits + 1
    /\ call' = NoCall
    /\ UNCHANGED <<storeVars, appVars>>

\* roi_calculator.calculate_roi_with_inputs(inputs)
Calculate ==
    /\ call' = [op |-> "calculate", arg |-> inputs,
                result |-> calculate_roi_with_inputs(inputs)]
    /\ call' # call
    /\ UNCHANGED <<inputs, edits, storeVars, appVars>>

NextCalc ==
    \/ \E response \in Responses : Fetch(response)
    \/ \E raw \in RawRecords : Extract(raw)
    \/ \E k \in FieldKeys : \E v \in FieldValues(k) : SetField(k, v)
    \/ \E k \in FieldKeys : RemoveField(k)
    \/ Calculate

SpecCalc == InitCalc /\ [][NextCalc]_vars

(***************************************************************************)
(* ROIStorage: the table roi_inputs behind one connection                  *)
(***************************************************************************)
MaxTitles == 2
Titles == 1..MaxTitles

NoRow == [t |-> "norow"]

\* float(x): a number converts, None and non-numeric text raise
float(v) == IF IsNum(v) THEN v ELSE TypeError
\* int(x): a number is truncated towards zero, None and text raise
int(v) ==
    IF IsNum(v)
    THEN Whole(IF v.n >= 0 THEN v.n \div v.d ELSE -((-v.n) \div v.d))
    ELSE TypeError

\* lines 63-75: the statement parameters, or TypeError when a conversion raises
save_params(use_case_title, inp, business_unit) ==
    LET p == [use_case_title |-> use_case_title,
              business_unit |-> Or(business_unit, Str("Unknown")),
              labor_impact_hours |->
                  float(GetDefault(inp, "labor_impact_hours", Whole(0))),
              labor_cost_hourly |->
                  float(GetDefault(inp, "labor_cost_hourly", Whole(100))),
              cost_avoidance_annual |->
                  float(GetDefault(inp, "cost_avoidance_annual", Whole(0))),
              revenue_impact_annual |->
                  float(GetDefault(inp, "revenue_impact_annual", Whole(0))),
              risk_mitigation_score |->
                  int(GetDefault(inp, "risk_mitigation_score", Whole(3))),
              customer_reach_score |->
                  int(GetDefault(inp, "customer_reach_score", Whole(3))),
              time_to_value_hours |->
                  float(GetDefault(inp, "time_to_value_hours", Whole(0))),
              implementation_cost_hourly |->
                  float(GetDefault(inp, "implementation_cost_hourly", Whole(100))),
              confidence_level |->
                  int(GetDefault(inp, "confidence_level", Whole(3)))]
    IN  IF \E k \in FieldKeys : p[k] = TypeError THEN TypeError ELSE p

\* a mutation of do_update_set: implementation_cost_hourly is left out of the
\* SET list
do_update_set_dropColumn(row, excluded) ==
    [row EXCEPT !.business_unit = excluded.business_unit,
                !.labor_impact_hours = excluded.labor_impact_hours,
                !.labor_cost_hourly = excluded.labor_cost_hourly,
                !.cost_avoidance_annual = excluded.cost_avoidance_annual,
                !.revenue_impact_annual = excluded.revenue_impact_annual,
                !.risk_mitigation_score = excluded.risk_mitigation_score,
                !.customer_reach_score = excluded.customer_reach_score,
                !.time_to_value_hours = excluded.time_to_value_hours,
                !.confidence_level = excluded.confidence_level,
                !.updated_at = excluded.updated_at]

\* lines 51-62: DO UPDATE SET ... on the conflicting row
do_update_set(row, excluded) ==
    [row EXCEPT !.business_unit = excluded.business_unit,
                !.labor_impact_hours = excluded.labor_impact_hours,
                !.labor_cost_hourly = excluded.labor_cost_hourly,
                !.cost_avoidance_annual = excluded.cost_avoidance_annual,
                !.revenue_impact_annual = excluded.revenue_impact_annual,
                !.risk_mitigation_score = excluded.risk_mitigation_score,
                !.customer_reach_score = excluded.customer_reach_score,
                !.time_to_value_hours = excluded.time_to_value_hours,
                !.implementation_cost_hourly = excluded.implementation_cost_hourly,
                !.confidence_level = excluded.confidence_level,
                !.updated_at = excluded.updated_at]

\* a mutation of upsert: a plain INSERT without the ON CONFLICT clause
upsert_plainInsert(table, excluded) == table \cup {excluded}

\* lines 41-62: INSERT ... ON CONFLICT (use_case_title) DO UPDATE
upsert(table, excluded) ==
    IF \E r \in table : r.use_case_title = excluded.use_case_title
    THEN { IF r.use_case_title = excluded.use_case_title
           THEN do_update_set(r, excluded) ELSE r : r \in table }
    ELSE table \cup {excluded}

RowsOf(table, title) == {r \in table : r.use_case_title = title}
RowOf(table, title) ==
    IF RowsOf(table, title) = {} THEN NoRow
    ELSE CHOOSE r \in RowsOf(table, title) : TRUE

\* the field mappings and business units callers pass to save_roi_inputs
InputsB ==
    [labor_impact_hours |-> Num(5, 2), labor_cost_hourly |-> Whole(80),
     cost_avoidance_annual |-> Whole(0), revenue_impact_annual |-> Whole(600),
     time_to_value_hours |-> Whole(8), implementation_cost_hourly |-> Whole(120),
     risk_mitigation_score |-> Whole(1), customer_reach_score |-> Whole(2),
     confidence_level |-> Whole(5)]
InputsPartial == [labor_impact_hours |-> Whole(10)]
InputsUnset == [k \in FieldKeys |-> input_default(EmptyMapping, k)]
\* <<inputs, business_unit>> argument pairs
SaveCalls ==
    { <<ExampleInputs, Str("Finance")>>, <<InputsB, None>>,
      <<InputsPartial, Str("Ops")>>, <<InputsUnset, Str("Finance")>> }

\* an exception that leaves a method
Raise == [t |-> "raise"]

\* lines 40-75: cursor() works on an open connection only, and execute() is
\* reached only when every parameter converts
statement_runs(conn, params) == conn = "open" /\ params # TypeError

\* a mutation of save_returns: the except clause catches database errors only
save_returns_narrowExcept(conn, params) ==
    IF conn = "none" THEN "False"
    ELSE IF conn # "open" THEN "False"
    ELSE IF params = TypeError THEN "raise"
    ELSE "True"

\* a mutation of save_returns: the return True after execute() is missing
save_returns_noReturnTrue(conn, params) == "False"

\* lines 36-38 and 76-78: what save_roi_inputs hands back
save_returns(conn, params) ==
    IF conn = "none" THEN "False"
    ELSE IF statement_runs(conn, params) THEN "True"
    ELSE "False"

\* the statement of save_roi_inputs runs: the connection is usable and the
\* parameters convert
SaveExecutes(use_case_title, inp, business_unit) ==
    statement_runs(connection, save_params(use_case_title, inp, business_unit))

\* ROIStorage.save_roi_inputs(use_case_title, inputs, business_unit)
Save(use_case_title, inp, business_unit) ==
    LET ok == SaveExecutes(use_case_title, inp, business_unit)
        params == save_params(use_case_title, inp, business_unit)
        \* VALUES (..., CURRENT_TIMESTAMP)
        excluded == [k \in DOMAIN params \cup {"updated_at"} |->
                        IF k = "updated_at" THEN now ELSE params[k]]
        returned == save_returns(connection, params)
    IN  /\ ok => now < MaxClock
        /\ rows' = IF ok THEN upsert(rows, excluded) ELSE rows
        \* a later statement reads a later CURRENT_TIMESTAMP
        /\ now' = IF ok THEN now + 1 ELSE now
        /\ last' = [op |-> "save", title |-> use_case_title, inputs |-> inp,
                    business_unit |-> business_unit,
                    result |-> returned = "True", returned |-> returned,
                    prev |-> RowOf(rows, use_case_title), at |-> now]
        /\ UNCHANGED <<connection, calcVars, appVars>>

\* a transcription slip: the two hourly-rate columns read crosswise
row_to_inputs_ratesSwapped(result) ==
    [labor_impact_hours |-> float(result.labor_impact_hours),
     labor_cost_hourly |-> float(result.implementation_cost_hourly),
     cost_avoidance_annual |-> float(result.cost_avoidance_annual),
     revenue_impact_annual |-> float(result.revenue_impact_annual),
     risk_mitigation_score |-> int(result.risk_mitigation_score),
     customer_reach_score |-> int(result.customer_reach_score),
     time_to_value_hours |-> float(result.time_to_value_hours),
     implementation_cost_hourly |-> float(result.labor_cost_hourly),
     confidence_level |-> int(result.confidence_level)]

\* lines 93-103 and 123-133: the mapping built from a fetched row
row_to_inputs(result) ==
    [labor_impact_hours |-> float(result.labor_impact_hours),
     labor_cost_hourly |-> float(result.labor_cost_hourly),
     cost_avoidance_annual |-> float(result.cost_avoidance_annual),
     revenue_impact_annual |-> float(result.revenue_impact_annual),
     risk_mitigation_score |-> int(result.risk_mitigation_score),
     customer_reach_score |-> int(result.customer_reach_score),
     time_to_value_hours |-> float(result.time_to_value_hours),
     implementation_cost_hourly |-> float(result.implementation_cost_hourly),
     confidence_level |-> int(result.confidence_level)]

\* a mutation of load_roi_inputs: no try/except around the query
load_roi_inputs_noExcept(table, conn, use_case_title) ==
    IF conn = "none" THEN None
    ELSE IF conn # "open" THEN Raise
    ELSE IF RowsOf(table, use_case_title) = {} THEN None
    ELSE row_to_inputs(RowOf(table, use_case_title))

\* lines 80-106: load_roi_inputs
load_roi_inputs(table, conn, use_case_title) ==
    IF conn = "none" THEN None
    ELSE IF conn # "open" THEN None
    ELSE IF RowsOf(table, use_case_title) = {} THEN None
    ELSE row_to_inputs(RowOf(table, use_case_title))

RECURSIVE Perms(_)
\* the sequences that list every element of S once
Perms(S) ==
    IF S = {} THEN {<< >>}
    ELSE UNION { { <<x>> \o q : q \in Perms(S \ {x}) } : x \in S }

\* a mutation of order_by_updated_at_desc: ORDER BY updated_at (ascending)
order_by_updated_at_asc(table) ==
    { q \in Perms(table) :
        \A i \in 1..Len(q) : \A j \in 1..Len(q) :
            i < j => q[i].updated_at <= q[j].updated_at }

\* lines 116 and 162: the row orders ORDER BY updated_at DESC may produce
order_by_updated_at_desc(table) ==
    { q \in Perms(table) :
        \A i \in 1..Len(q) : \A j \in 1..Len(q) :
            i < j => q[i].updated_at >= q[j].updated_at }

\* lines 108-137: load_all_roi_inputs; a dict keeps the order of insertion,
\* here a sequence of <<title, mapping>>
load_all_roi_inputs(table, conn) ==
    IF conn # "open" THEN { [t |-> "dict", items |-> << >>] }
    ELSE { [t |-> "dict",
            items |-> [i \in 1..Len(q) |->
                         <<q[i].use_case_title, row_to_inputs(q[i])>>]] :
           q \in order_by_updated_at_desc(table) }

\* lines 154-168: get_saved_use_cases
get_saved_use_cases(table, conn) ==
    IF conn # "open" THEN { [t |-> "list", items |-> << >>] }
    ELSE { [t |-> "list",
            items |-> [i \in 1..Len(q) |-> q[i].use_case_title]] :
           q \in order_by_updated_at_desc(table) }

\* a mutation of delete_returns: rowcount >= 0
delete_returns_anyRowcount(table, conn, use_case_title) ==
    IF conn # "open" THEN "False" ELSE "True"

\* lines 141-152: what delete_roi_inputs hands back
delete_returns(table, conn, use_case_title) ==
    IF conn = "none" THEN "False"
    ELSE IF conn # "open" THEN "False"
    ELSE IF RowsOf(table, use_case_title) # {} THEN "True"
    ELSE "False"

\* ROIStorage.delete_roi_inputs(use_case_title)
Delete(use_case_title) ==
    LET ok == connection = "open"
        returned == delete_returns(rows, connection, use_case_title)
    IN  /\ rows' = IF ok THEN rows \ RowsOf(rows, use_case_title) ELSE rows
        /\ last' = [op |-> "delete", title |-> use_case_title,
                    result |-> returned = "True", returned |-> returned,
                    prev |-> RowOf(rows, use_case_title), at |-> now]
        /\ UNCHANGED <<connection, now, calcVars, appVars>>

\* ROIStorage.load_roi_inputs(use_case_title)
Load(use_case_title) ==
    /\ last' = [op |-> "load", title |-> use_case_title,
                result |-> load_roi_inputs(rows, connection, use_case_title)]
    /\ UNCHANGED <<rows, connection, now, calcVars, appVars>>

\* ROIStorage.load_all_roi_inputs()
LoadAll ==
    /\ \E r \in load_all_roi_inputs(rows, connection) :
          last' = [op |-> "load_all", result |-> r]
    /\ UNCHANGED <<rows, connection, now, calcVars, appVars>>

\* ROIStorage.get_saved_use_cases()
GetSaved ==
    /\ \E r \in get_saved_use_cases(rows, connection) :
          last' = [op |-> "get_saved", result |-> r]
    /\ UNCHANGED <<rows, connection, now, calcVars, appVars>>

\* ROIStorage.close(): closing a closed or broken connection is not an error
Close ==
    /\ connection' = "closed"
    /\ last' = [op |-> "close", returned |-> "None"]
    /\ UNCHANGED <<rows, now, calcVars, appVars>>

\* the server or the network drops the connection
ConnectionLost ==
    /\ connection = "open"
    /\ connection' = "lost"
    /\ UNCHANGED <<rows, now, last, calcVars, appVars>>

\* a new ROIStorage() connects
Connect ==
    /\ connection # "open"
    /\ connection' = "open"
    /\ last' = [op |-> "connect"]
    /\ UNCHANGED <<rows, now, calcVars, appVars>>

\* the server clock behind CURRENT_TIMESTAMP advances
Tick ==
    /\ now < MaxClock
    /\ now' = now + 1
    /\ UNCHANGED <<rows, connection, last, calcVars, appVars>>

Init ==
    /\ inputs = EmptyMapping
    /\ call = NoCall
    /\ edits = 0
    /\ InitStore
    /\ InitSession

Next ==
    \/ \E title \in Titles : \E c \in SaveCalls : Save(title, c[1], c[2])
    \/ \E title \in Titles : Delete(title)
    \/ \E title \in Titles : Load(title)
    \/ LoadAll
    \/ GetSaved
    \/ Close
    \/ ConnectionLost
    \/ Connect
    \/ Tick

Spec == Init /\ [][Next]_vars

(***************************************************************************)
(* app.display_roi_analysis: one render pass of a browser session.  Every  *)
(* pass constructs its own ROIStorage, shows the consolidated summary,     *)
(* renders the calculator widgets of the selected use case, writes their   *)
(* values into st.session_state.roi_inputs and auto-saves them.            *)
(***************************************************************************)
MaxPasses == 3

\* the row of the use-case table behind a title
use_case_data(title) == [title |-> title, business_unit |-> Str("Finance")]

\* values a user may type into all widgets of the calculator: the worked
\* example, and a record with effort but no benefit
InputsNoBenefit ==
    [labor_impact_hours |-> Whole(0), labor_cost_hourly |-> Whole(100),
     cost_avoidance_annual |-> Whole(0), revenue_impact_annual |-> Whole(0),
     time_to_value_hours |-> Whole(20), implementation_cost_hourly |-> Whole(100),
     risk_mitigation_score |-> Whole(3), customer_reach_score |-> Whole(3),
     confidence_level |-> Whole(3)]
\* a record with a benefit but no effort entered
InputsNoEffort ==
    [labor_impact_hours |-> Whole(5), labor_cost_hourly |-> Whole(100),
     cost_avoidance_annual |-> Whole(0), revenue_impact_annual |-> Whole(0),
     time_to_value_hours |-> Whole(0), implementation_cost_hourly |-> Whole(100),
     risk_mitigation_score |-> Whole(3), customer_reach_score |-> Whole(3),
     confidence_level |-> Whole(3)]
UserEdits == {ExampleInputs, InputsNoBenefit, InputsNoEffort}
Keep == [t |-> "keep"]

\* the mapping title -> inputs that load_all_roi_inputs returned
AsMapping(loaded) ==
    [title \in {loaded.items[i][1] : i \in 1..Len(loaded.items)} |->
        LET i == CHOOSE j \in 1..Len(loaded.items) : loaded.items[j][1] = title
        IN  loaded.items[i][2]]

\* a variation of session_state_get: the overlay is not consulted
session_state_get_blank(state, dflt) == dflt

\* line 653: st.session_state.get('roi_inputs', {})
session_state_get(state, dflt) ==
    IF state.has_roi_inputs THEN state.roi_inputs ELSE dflt

\* a variation of merge: the stored values win over the in-memory ones
merge_storeWins(consolidated_roi_data, session_roi_data) ==
    Update(session_roi_data, consolidated_roi_data)

\* lines 656-657: all_roi_data = consolidated_roi_data.copy();
\* all_roi_data.update(session_roi_data)
merge(consolidated_roi_data, session_roi_data) ==
    Update(consolidated_roi_data, session_roi_data)

\* line 672
key_fields ==
    {"labor_impact_hours", "cost_avoidance_annual", "revenue_impact_annual"}

\* x not in [None, 0, '']
not_blank(v) == ~(v = None \/ v = Whole(0) \/ v = Str(""))

\* a variation of has_data: the effort estimate counts as data too
has_data_withEffort(inp) ==
    \E field \in key_fields \cup {"time_to_value_hours"} :
        not_blank(Get(inp, field))

\* line 673
has_data(inp) == \E field \in key_fields : not_blank(Get(inp, field))

\* f"{x:.0f}" (scale 1) and f"{x:.1f}" (scale 10): x rounded half to even
\* to a multiple of 1/scale, given as the number of such units
RoundHalfEven(x, scale) ==
    LET scaled == x.n * scale
        f == scaled \div x.d
        r == scaled - f * x.d
    IN  IF 2 * r < x.d THEN f
        ELSE IF 2 * r > x.d THEN f + 1
        ELSE IF f % 2 = 0 THEN f ELSE f + 1

\* line 697: f"${impl_cost:,.0f}" if impl_cost > 0 else "Not Set"
impl_cost_display(impl_cost) ==
    IF RLt(Whole(0), impl_cost)
    THEN [t |-> "usd", units |-> RoundHalfEven(impl_cost, 1)]
    ELSE Str("Not Set")

\* line 698: f"{roi_percentage:.1f}%" if impl_cost > 0 and
\* roi_percentage != float('inf') else "N/A"
roi_display(impl_cost, roi_percentage) ==
    IF RLt(Whole(0), impl_cost) /\ roi_percentage # Inf
    THEN [t |-> "pct", tenths |-> RoundHalfEven(roi_percentage, 10)]
    ELSE Str("N/A")

\* a variation of ROI_numeric: an N/A row sorts like an unbounded ROI
ROI_numeric_naOnTop(display) ==
    IF display = Str("N/A") THEN Whole(1000000) ELSE Num(display.tenths, 10)

\* line 750: .replace('N/A', '0').str.replace('%', '').astype(float)
ROI_numeric(display) ==
    IF display = Str("N/A") THEN Whole(0) ELSE Num(display.tenths, 10)

\* line 751: sort_values('ROI_numeric', ascending=sort_ascending) over the
\* summary rows; the row orders the sort may produce, as titles
sort_by_roi(summary, sort_ascending) ==
    { q \in Perms(DOMAIN summary) :
        \A i \in 1..Len(q) : \A j \in 1..Len(q) :
            i < j =>
               IF sort_ascending
               THEN RLe(ROI_numeric(summary[q[i]].roi_display),
                        ROI_numeric(summary[q[j]].roi_display))
               ELSE RLe(ROI_numeric(summary[q[j]].roi_display),
                        ROI_numeric(summary[q[i]].roi_display)) }

\* lines 680-706: the figures and the two display strings with a sentinel
\* of one summary row
summary_row(case_title, inp) ==
    LET results == calculate_roi_with_inputs(inp)
    IN  [case_title |-> case_title,
         impl_cost_display |-> impl_cost_display(results.implementation_cost),
         roi_display |-> roi_display(results.implementation_cost,
                                     results.annual_roi_percentage),
         annual_benefit |-> results.annual_benefit,
         impl_cost |-> results.implementation_cost,
         net_benefit |-> Sub(results.annual_benefit,
                             results.implementation_cost),
         roi_percentage |-> results.annual_roi_percentage,
         monthly_benefit |-> results.monthly_benefit,
         strategic_value |-> results.strategic_value]

\* lines 669-705: one row per merged record that has data (the result of
\* calculate_roi_with_inputs is a non-empty mapping, so `if results` holds)
roi_summary_data(all_roi_data) ==
    [case_title \in {c \in DOMAIN all_roi_data : has_data(all_roi_data[c])} |->
        summary_row(case_title, all_roi_data[case_title])]

RECURSIVE SumOver(_, _)
SumOver(summary, column) ==
    IF DOMAIN summary = {} THEN Whole(0)
    ELSE LET c == CHOOSE x \in DOMAIN summary : TRUE
             rest == [x \in DOMAIN summary \ {c} |-> summary[x]]
         IN  Add(summary[c][column], SumOver(rest, column))

\* a variation of totals: the portfolio ROI is taken on the gross benefit
totals_grossRoi(summary) ==
    LET total_annual_benefits == SumOver(summary, "annual_benefit")
        total_implementation_costs == SumOver(summary, "impl_cost")
        total_net_benefit ==
            Sub(total_annual_benefits, total_implementation_costs)
    IN  [total_annual_benefits |-> total_annual_benefits,
         total_implementation_costs |-> total_implementation_costs,
         total_net_benefit |-> total_net_benefit,
         overall_roi |->
            IF RLt(Whole(0), total_implementation_costs)
            THEN RMul(RDiv(total_annual_benefits, total_implementation_costs),
                      Whole(100))
            ELSE Whole(0)]

\* lines 665-666, 686-687 and 709-711: the portfolio totals
totals(summary) ==
    LET total_annual_benefits == SumOver(summary, "annual_benefit")
        total_implementation_costs == SumOver(summary, "impl_cost")
        total_net_benefit ==
            Sub(total_annual_benefits, total_implementation_costs)
    IN  [total_annual_benefits |-> total_annual_benefits,
         total_implementation_costs |-> total_implementation_costs,
         total_net_benefit |-> total_net_benefit,
         overall_roi |->
            IF RLt(Whole(0), total_implementation_costs)
            THEN RMul(RDiv(total_net_benefit, total_implementation_costs),
                      Whole(100))
            ELSE Whole(0)]

\* a variation of widget_fallback: a slider without a value starts at 1
widget_fallback_lowScores(k) ==
    CASE k \in {"labor_cost_hourly", "implementation_cost_hourly"} -> Whole(100)
      [] k \in ScoreKeys -> Whole(1)
      [] OTHER -> Whole(0)

\* the fallback of `record.get(key) or <fallback>` in the widget's value=
widget_fallback(k) ==
    CASE k \in {"labor_cost_hourly", "implementation_cost_hourly"} -> Whole(100)
      [] k \in ScoreKeys -> Whole(3)
      [] OTHER -> Whole(0)

\* lines 1027-1106: value=float(record.get(k) or 0|100) of a number input,
\* value=int(record.get(k) or 3) of a slider
widget_value(record, k) ==
    IF k \in ScoreKeys
    THEN int(Or(Get(record, k), widget_fallback(k)))
    ELSE float(Or(Get(record, k), widget_fallback(k)))

\* what the widgets of the selected use case show when the user types
\* nothing: a widget that has state under its key (it was rendered in the
\* previous pass) keeps it, a widget rendered anew takes value=
shown(record, use_case_title, k) ==
    IF session.widgets.title = use_case_title
    THEN session.widgets.values[k]
    ELSE widget_value(record, k)

\* line 1125: `if roi_storage:` - the pass saves whether or not the user
\* typed anything.  A variation: it saves only what the user typed
auto_save_onEdit(roi_storage, typed) == roi_storage /\ typed # Keep

auto_save(roi_storage, typed) == roi_storage

\* lines 840-857: the use case the selectbox holds: its state, or the first
\* option when it has none
selected_title(state) ==
    IF state.widgets.title = 0 THEN 1 ELSE state.widgets.title

\* a variation of overlay_after_delete: the entry goes whatever delete says
overlay_after_delete_unchecked(roi_inputs, case_title, deleted) ==
    [c \in DOMAIN roi_inputs \ {case_title} |-> roi_inputs[c]]

\* lines 813-816: if delete_roi_inputs(case_title) returned true and the
\* title is in the overlay, del st.session_state.roi_inputs[case_title]
overlay_after_delete(roi_inputs, case_title, deleted) ==
    IF deleted
    THEN [c \in DOMAIN roi_inputs \ {case_title} |-> roi_inputs[c]]
    ELSE roi_inputs

\* display_roi_analysis(df) run by a click on the delete button of
\* case_title in the management panel; the connection may be lost before
\* the DELETE statement, and st.rerun() may or may not leave the widgets
\* below the panel their state
DeletePass(case_title, lost, widgets_kept) ==
    LET conn == IF lost THEN "lost" ELSE "open"
        use_case_title == selected_title(session)
    IN  \E loaded \in load_all_roi_inputs(rows, "open") :
        \E saved_cases \in get_saved_use_cases(rows, "open") :
        LET consolidated_roi_data == AsMapping(loaded)
            session_roi_data == session_state_get(session, EmptyMapping)
            all_roi_data == merge(consolidated_roi_data, session_roi_data)
            roi_summary == roi_summary_data(all_roi_data)
            returned == delete_returns(rows, conn, case_title)
            roi_inputs1 ==
                overlay_after_delete(session.roi_inputs, case_title,
                                     returned = "True")
            \* the rest of the pass, reached when delete returned false
            initial_inputs ==
                extract_roi_inputs_from_api(use_case_data(use_case_title))
            roi_inputs2 ==
                IF use_case_title \in DOMAIN roi_inputs1 THEN roi_inputs1
                ELSE Update(roi_inputs1,
                            [c \in {use_case_title} |-> initial_inputs])
            updated_inputs ==
                [k \in FieldKeys |->
                    shown(roi_inputs2[use_case_title], use_case_title, k)]
            roi_inputs3 ==
                [roi_inputs2 EXCEPT ![use_case_title] =
                    Update(roi_inputs2[use_case_title], updated_inputs)]
            params == save_params(use_case_title, updated_inputs,
                                  use_case_data(use_case_title).business_unit)
            ok == /\ returned # "True"
                  /\ auto_save(TRUE, Keep)
                  /\ statement_runs(conn, params)
            excluded ==
                [k \in DOMAIN params \cup {"updated_at"} |->
                    IF k = "updated_at" THEN now ELSE params[k]]
        IN  /\ pass.passes < MaxPasses
            /\ pass.op = "render" /\ pass.storage
            /\ session.has_roi_inputs
            /\ \E i \in 1..Len(saved_cases.items) :
                  saved_cases.items[i] = case_title
            /\ ok => now < MaxClock
            /\ session' =
                  IF returned = "True"
                  THEN [has_roi_inputs |-> TRUE, roi_inputs |-> roi_inputs1,
                        widgets |-> IF widgets_kept THEN session.widgets
                                    ELSE NoWidgets]
                  ELSE [has_roi_inputs |-> TRUE, roi_inputs |-> roi_inputs3,
                        widgets |-> [title |-> use_case_title,
                                     values |-> updated_inputs]]
            /\ rows' = IF returned = "True"
                       THEN rows \ RowsOf(rows, case_title)
                       ELSE IF ok THEN upsert(rows, excluded) ELSE rows
            /\ now' = IF ok THEN now + 1 ELSE now
            /\ pass' = [op |-> "delete", clicked |-> case_title,
                        returned |-> returned,
                        rerun |-> returned = "True",
                        title |-> use_case_title,
                        passes |-> pass.passes + 1,
                        storage |-> TRUE,
                        saved_cases |-> saved_cases,
                        consolidated |-> consolidated_roi_data,
                        session_roi_data |-> session_roi_data,
                        all_roi_data |-> all_roi_data,
                        roi_summary_data |-> roi_summary,
                        totals |-> totals(roi_summary),
                        read |-> TRUE,
                        wrote |-> ok,
                        first_failed |-> pass.first_failed,
                        edited |-> pass.edited]
            /\ UNCHANGED <<connection, last, calcVars>>

\* display_roi_analysis(df) with the store reachable or not, the use case
\* picked in the selectbox and what the user typed into the widgets
RenderPass(up, use_case_title, typed) ==
    LET roi_storage == up
        conn == IF up THEN "open" ELSE "none"
    IN  \E loaded \in load_all_roi_inputs(rows, conn) :
        LET consolidated_roi_data ==
                IF roi_storage THEN AsMapping(loaded) ELSE EmptyMapping
            session_roi_data == session_state_get(session, EmptyMapping)
            all_roi_data == merge(consolidated_roi_data, session_roi_data)
            roi_summary == roi_summary_data(all_roi_data)
            \* lines 771-782
            roi_inputs1 ==
                IF session.has_roi_inputs THEN session.roi_inputs
                ELSE IF roi_storage
                     THEN Update(EmptyMapping, AsMapping(loaded))
                     ELSE EmptyMapping
            \* lines 860-864
            initial_inputs ==
                extract_roi_inputs_from_api(use_case_data(use_case_title))
            roi_inputs2 ==
                IF use_case_title \in DOMAIN roi_inputs1 THEN roi_inputs1
                ELSE Update(roi_inputs1,
                            [c \in {use_case_title} |-> initial_inputs])
            \* lines 1109-1121
            updated_inputs ==
                IF typed = Keep
                THEN [k \in FieldKeys |->
                        shown(roi_inputs2[use_case_title], use_case_title, k)]
                ELSE typed
            roi_inputs3 ==
                [roi_inputs2 EXCEPT ![use_case_title] =
                    Update(roi_inputs2[use_case_title], updated_inputs)]
            \* lines 1124-1132
            params == save_params(use_case_title, updated_inputs,
                                  use_case_data(use_case_title).business_unit)
            ok == auto_save(roi_storage, typed) /\ statement_runs(conn, params)
            excluded ==
                [k \in DOMAIN params \cup {"updated_at"} |->
                    IF k = "updated_at" THEN now ELSE params[k]]
        IN  /\ pass.passes < MaxPasses
            /\ pass.rerun =>
                  typed = Keep /\ use_case_title = selected_title(session)
            /\ ok => now < MaxClock
            /\ session' = [has_roi_inputs |-> TRUE, roi_inputs |-> roi_inputs3,
                           widgets |-> [title |-> use_case_title,
                                        values |-> updated_inputs]]
            /\ rows' = IF ok THEN upsert(rows, excluded) ELSE rows
            /\ now' = IF ok THEN now + 1 ELSE now
            /\ pass' = [op |-> "render", title |-> use_case_title,
                        passes |-> pass.passes + 1,
                        rerun |-> FALSE,
                        typed |-> typed # Keep,
                        created |-> use_case_title \notin DOMAIN roi_inputs1,
                        after_delete |->
                            IF pass.rerun THEN pass.clicked ELSE 0,
                        storage |-> roi_storage,
                        consolidated |-> consolidated_roi_data,
                        session_roi_data |-> session_roi_data,
                        all_roi_data |-> all_roi_data,
                        roi_summary_data |-> roi_summary,
                        totals |-> totals(roi_summary),
                        read |-> roi_storage,
                        wrote |-> ok,
                        roi_metrics |->
                            calculate_roi_with_inputs(
                                roi_inputs3[use_case_title]),
                        first_failed |->
                            IF pass.op = "none" THEN ~roi_storage
                            ELSE pass.first_failed,
                        edited |->
                            IF typed = Keep THEN pass.edited
                            ELSE pass.edited \cup {use_case_title}]
            /\ UNCHANGED <<connection, last, calcVars>>

\* the browser session ends and another one begins: st.session_state is
\* empty again, the table is what it was
NewSession ==
    /\ pass.op # "none"
    /\ session' = NewState
    /\ pass' = [NoPass EXCEPT !.passes = pass.passes]
    /\ UNCHANGED <<storeVars, calcVars>>

NextApp ==
    \/ \E up \in BOOLEAN : \E title \in Titles :
          \E typed \in UserEdits \cup {Keep} : RenderPass(up, title, typed)
    \/ \E title \in Titles : \E lost \in BOOLEAN : \E widgets_kept \in BOOLEAN :
          DeletePass(title, lost, widgets_kept)
    \/ NewSession

SpecApp == Init /\ [][NextApp]_vars

(***************************************************************************)
(* The aggregation of lines 644-713 statement by statement, with other     *)
(* sessions writing to the table while it runs.                            *)
(***************************************************************************)
\* the keys of a mapping as a sequence
RECURSIVE KeysOf(_)
KeysOf(mapping) ==
    IF DOMAIN mapping = {} THEN << >>
    ELSE LET c == CHOOSE x \in DOMAIN mapping : \A y \in DOMAIN mapping : x <= y
         IN  <<c>> \o KeysOf([x \in DOMAIN mapping \ {c} |-> mapping[x]])

\* a variation of loop_inputs: the record is fetched again for each title
loop_inputs_reread(all_roi_data, table, case_title) ==
    IF RowOf(table, case_title) # NoRow
    THEN row_to_inputs(RowOf(table, case_title))
    ELSE all_roi_data[case_title]

\* line 669: for case_title, inputs in all_roi_data.items()
loop_inputs(all_roi_data, table, case_title) == all_roi_data[case_title]

\* lines 644-666: the store is read once, the merged mapping is built and
\* the running totals start at 0
AggregateBegin(up) ==
    LET conn == IF up THEN "open" ELSE "none"
    IN  \E loaded \in load_all_roi_inputs(rows, conn) :
        LET consolidated_roi_data ==
                IF up THEN AsMapping(loaded) ELSE EmptyMapping
            session_roi_data == session_state_get(session, EmptyMapping)
            all_roi_data == merge(consolidated_roi_data, session_roi_data)
        IN  /\ IF pass.op = "aggregate" THEN pass.pc = "done" ELSE TRUE
            /\ pass.passes < MaxPasses
            /\ all_roi_data # EmptyMapping
            /\ pass' = [op |-> "aggregate", pc |-> "loop",
                        passes |-> pass.passes + 1,
                        rerun |-> FALSE,
                        first_failed |-> pass.first_failed,
                        edited |-> pass.edited,
                        storage |-> up,
                        rows_at_build |-> rows,
                        session_roi_data |-> session_roi_data,
                        consolidated |-> consolidated_roi_data,
                        all_roi_data |-> all_roi_data,
                        pending |-> KeysOf(all_roi_data),
                        roi_summary_data |-> EmptyMapping,
                        total_annual_benefits |-> Whole(0),
                        total_implementation_costs |-> Whole(0),
                        total_net_benefit |-> None,
                        overall_roi |-> None]
            /\ UNCHANGED <<storeVars, session, calcVars>>

\* lines 669-705: one turn of the loop
AggregateRow ==
    /\ pass.op = "aggregate" /\ pass.pc = "loop"
    /\ pass.pending # << >>
    /\ LET case_title == Head(pass.pending)
           inp == loop_inputs(pass.all_roi_data, rows, case_title)
           row == summary_row(case_title, inp)
       IN  pass' =
             IF has_data(inp)
             THEN [pass EXCEPT
                     !.pending = Tail(pass.pending),
                     !.roi_summary_data =
                         Update(pass.roi_summary_data,
                                [c \in {case_title} |-> row]),
                     !.total_annual_benefits =
                         Add(pass.total_annual_benefits, row.annual_benefit),
                     !.total_implementation_costs =
                         Add(pass.total_implementation_costs, row.impl_cost)]
             ELSE [pass EXCEPT !.pending = Tail(pass.pending)]
    /\ UNCHANGED <<storeVars, session, calcVars>>

\* lines 707-713: the loop is over, the overall figures follow
AggregateEnd ==
    /\ pass.op = "aggregate" /\ pass.pc = "loop"
    /\ pass.pending = << >>
    /\ LET total_net_benefit ==
               Sub(pass.total_annual_benefits, pass.total_implementation_costs)
       IN  pass' =
             [pass EXCEPT
                !.pc = "done",
                !.total_net_benefit = total_net_benefit,
                !.overall_roi =
                    IF RLt(Whole(0), pass.total_implementation_costs)
                    THEN RMul(RDiv(total_net_benefit,
                                   pass.total_implementation_costs),
                              Whole(100))
                    ELSE Whole(0)]
    /\ UNCHANGED <<storeVars, session, calcVars>>

\* the aggregation runs inside one script run; between two runs the session
\* renders passes, and other sessions save and delete rows while the loop
\* runs
NextAggregate ==
    \/ \E up \in BOOLEAN : AggregateBegin(up)
    \/ AggregateRow
    \/ AggregateEnd
    \/ /\ IF pass.op = "aggregate" THEN pass.pc = "done" ELSE TRUE
       /\ \E up \in BOOLEAN : \E title \in Titles :
          \E typed \in {ExampleInputs, InputsNoBenefit} :
             RenderPass(up, title, typed)
    \/ /\ IF pass.op = "aggregate" THEN pass.pc = "loop" ELSE FALSE
       /\ \E title \in Titles : Save(title, InputsB, None)
    \/ /\ IF pass.op = "aggregate" THEN pass.pc = "loop" ELSE FALSE
       /\ \E title \in Titles : Delete(title)

SpecAggregate == Init /\ [][NextAggregate]_vars

(***************************************************************************)
(* Properties of the formula engine and the adapter (SpecCalc)             *)
(***************************************************************************)
Calculated == call.op = "calculate"
Extracted == call.op = "extract"

BenefitKeys ==
    {"labor_impact_hours", "labor_cost_hourly", "cost_avoidance_annual",
     "revenue_impact_annual", "time_to_value_hours"}

\* the record has every benefit/effort field set to a non-negative number
NonNegativeNumeric(inp) ==
    \A k \in BenefitKeys :
        k \in DOMAIN inp /\ IsNum(inp[k]) /\ inp[k].n >= 0

\* a field with missing/null read as 0
OrZero(inp, k) == IF Get(inp, k) = None THEN Whole(0) ELSE inp[k]

\* the formulas of the design, on numbers
F_monthly_benefit(h, r, ca, rev) ==
    RAdd(RAdd(RMul(h, r), RDiv(ca, Whole(12))), RDiv(rev, Whole(12)))
F_payback(mb, ic) == IF RLt(Whole(0), mb) THEN RDiv(ic, mb) ELSE Inf
F_annual_roi(mb, ic) ==
    IF RLt(Whole(0), ic)
    THEN RMul(RDiv(RSub(RMul(Whole(12), mb), ic), ic), Whole(100))
    ELSE Whole(0)
F_strategic_value(a, b, c) == RDiv(RAdd(RAdd(a, b), c), Whole(3))

\* C1: for every input record with non-negative numeric fields,
\* monthly_benefit = labor_impact_hours * labor_cost_hourly
\* + cost_avoidance_annual / 12 + revenue_impact_annual / 12,
\* annual_benefit = 12 * monthly_benefit, and the three monthly breakdown
\* fields sum to monthly_benefit.
C1_BenefitFormula ==
    (Calculated /\ NonNegativeNumeric(call.arg)) =>
        /\ call.result.t = "result"
        /\ call.result.monthly_benefit =
              F_monthly_benefit(call.arg.labor_impact_hours,
                                call.arg.labor_cost_hourly,
                                call.arg.cost_avoidance_annual,
                                call.arg.revenue_impact_annual)
        /\ call.result.annual_benefit =
              RMul(Whole(12), call.result.monthly_benefit)
        /\ RAdd(RAdd(call.result.labor_savings_monthly,
                     call.result.cost_avoidance_monthly),
                call.result.revenue_monthly) = call.result.monthly_benefit

\* C2: payback_period_months equals exactly implementation_cost /
\* monthly_benefit whenever monthly_benefit > 0, however small, and +infinity
\* otherwise.
C2_PaybackExact ==
    (Calculated /\ call.result.t = "result") =>
        call.result.payback_period_months =
            F_payback(call.result.monthly_benefit, call.result.implementation_cost)

\* C3: annual_roi_percentage equals exactly ((12 * monthly_benefit) -
\* implementation_cost) / implementation_cost * 100 whenever
\* implementation_cost > 0, however small, and 0 otherwise.
C3_AnnualRoiExact ==
    (Calculated /\ call.result.t = "result") =>
        call.result.annual_roi_percentage =
            F_annual_roi(call.result.monthly_benefit, call.result.implementation_cost)

\* C4: zero-effort boundary: when implementation_cost = 0 the annual ROI is
\* 0, the payback is +infinity if and only if monthly_benefit is 0, and the
\* payback is exactly 0 when monthly_benefit > 0.
C4_ZeroEffort ==
    (Calculated /\ call.result.t = "result"
        /\ call.result.implementation_cost = Whole(0)) =>
        /\ call.result.annual_roi_percentage = Whole(0)
        /\ (call.result.payback_period_months = Inf
              <=> call.result.monthly_benefit = Whole(0))
        /\ (RLt(Whole(0), call.result.monthly_benefit)
              => call.result.payback_period_months = Whole(0))

\* C4 witness: a positive monthly benefit at zero implementation cost
C4_Witness ==
    /\ Calculated
    /\ call.result.t = "result"
    /\ call.result.implementation_cost = Whole(0)
    /\ RLt(Whole(0), call.result.monthly_benefit)
    /\ call.result.payback_period_months = Whole(0)

\* the result fields the design gives formulas for, from the record with
\* every missing/null field read as 0
FormulasWithZeros(inp) ==
    LET h == OrZero(inp, "labor_impact_hours")
        r == OrZero(inp, "labor_cost_hourly")
        ca == OrZero(inp, "cost_avoidance_annual")
        rev == OrZero(inp, "revenue_impact_annual")
        ttv == OrZero(inp, "time_to_value_hours")
        mb == F_monthly_benefit(h, r, ca, rev)
        ic == RMul(ttv, r)
    IN  [monthly_benefit |-> mb,
         annual_benefit |-> RMul(Whole(12), mb),
         implementation_cost |-> ic,
         payback_period_months |-> F_payback(mb, ic),
         annual_roi_percentage |-> F_annual_roi(mb, ic),
         strategic_value |->
            F_strategic_value(OrZero(inp, "risk_mitigation_score"),
                              OrZero(inp, "customer_reach_score"),
                              OrZero(inp, "confidence_level"))]

Filled(inp) ==
    [k \in DOMAIN inp \cup (FieldKeys \ {"implementation_cost_hourly"}) |->
        IF Get(inp, k) # None THEN inp[k]
        ELSE IF k = "labor_cost_hourly" THEN Whole(100) ELSE Whole(0)]

ScoresOf(inp) ==
    << OrZero(inp, "risk_mitigation_score"), OrZero(inp, "customer_reach_score"),
       OrZero(inp, "confidence_level") >>

C7_ImplementationCost ==
    Calculated =>
        /\ (("labor_cost_hourly" \in DOMAIN call.arg
                /\ IsNum(call.arg.labor_cost_hourly)) =>
              /\ call.result.t = "result"
              /\ call.result.implementation_cost =
                    RMul(OrZero(call.arg, "time_to_value_hours"),
                         call.arg.labor_cost_hourly))
        /\ \A v \in FieldValues("implementation_cost_hourly") :
              calculate_roi_with_inputs(
                  Update(call.arg, [x \in {"implementation_cost_hourly"} |-> v]))
                = call.result

UnsetByAdapter ==
    {"labor_impact_hours", "cost_avoidance_annual", "revenue_impact_annual",
     "time_to_value_hours"} \cup ScoreKeys

\* C8: for every raw mapping the adapter returns a record whose title and
\* business_unit are copied from the raw record ('' if absent), whose hours,
\* amounts and scores are unset and whose two hourly rates are 100, whatever
\* else the raw record holds.
C8_AdapterDefaults ==
    Extracted =>
        /\ call.result.title = GetDefault(call.arg, "title", Str(""))
        /\ call.result.business_unit =
              GetDefault(call.arg, "business_unit", Str(""))
        /\ \A k \in UnsetByAdapter : call.result[k] = None
        /\ call.result.labor_cost_hourly = Whole(100)
        /\ call.result.implementation_cost_hourly = Whole(100)

\* C8 witness: a raw record that itself carries hours, a rate and a score
C8_Witness ==
    /\ Extracted
    /\ "labor_impact_hours" \in DOMAIN call.arg
    /\ call.arg.labor_impact_hours = Whole(40)
    /\ call.arg.labor_cost_hourly = Whole(75)
    /\ "business_unit" \notin DOMAIN call.arg
    /\ call.result.business_unit = Str("")
    /\ call.result.labor_impact_hours = None

(***************************************************************************)
(* Properties of the store (Spec)                                          *)
(***************************************************************************)
Saved == last.op = "save" /\ last.result

\* C9: after any sequence of saves and deletes the table holds at most one
\* row per use_case_title; a successful save leaves exactly one row for its
\* title, and when it replaced a row (as when the same title and fields are
\* saved twice) updated_at is not earlier than that of the row it replaced.
C9_OneRowPerTitle ==
    /\ \A r1 \in rows : \A r2 \in rows :
          r1.use_case_title = r2.use_case_title => r1 = r2
    /\ Saved =>
          /\ Cardinality(RowsOf(rows, last.title)) = 1
          /\ (last.prev # NoRow =>
                RowOf(rows, last.title).updated_at >= last.prev.updated_at)

\* C9 witness: the same title and fields saved a second time, later
C9_Witness ==
    /\ Saved
    /\ last.prev # NoRow
    /\ Cardinality(RowsOf(rows, last.title)) = 1
    /\ \A k \in FieldKeys \cup {"business_unit"} :
          RowOf(rows, last.title)[k] = last.prev[k]
    /\ RowOf(rows, last.title).updated_at > last.prev.updated_at

\* the column value a save ends with when the mapping lacks the key
ColumnDefault(k) ==
    CASE k \in {"labor_cost_hourly", "implementation_cost_hourly"} -> Whole(100)
      [] k \in ScoreKeys -> Whole(3)
      [] OTHER -> Whole(0)

\* C10: a successful save on a title that already has a row replaces every
\* non-key field of the row by the newly supplied value (the column default
\* for a key the mapping lacks, 'Unknown' for a null business unit), keeps
\* nothing of the prior row, and sets updated_at to the time of the save.
C10_UpsertReplaces ==
    (Saved /\ last.prev # NoRow) =>
        LET row == RowOf(rows, last.title)
        IN  /\ row.use_case_title = last.title
            /\ row.business_unit =
                  (IF last.business_unit = None THEN Str("Unknown")
                   ELSE last.business_unit)
            /\ \A k \in FieldKeys :
                  row[k] = (IF k \in DOMAIN last.inputs THEN last.inputs[k]
                            ELSE ColumnDefault(k))
            /\ row.updated_at = last.at
            /\ row.updated_at >= last.prev.updated_at

\* C10 witness: a later save that changes every non-key field of the row
C10_Witness ==
    /\ Saved
    /\ last.prev # NoRow
    /\ \A k \in FieldKeys \cup {"business_unit"} :
          RowOf(rows, last.title)[k] # last.prev[k]
    /\ RowOf(rows, last.title).updated_at > last.prev.updated_at

StoreOps == {"save", "delete", "load", "load_all", "get_saved"}

\* the statement of the last save ran: its row carries the time of the call
UpsertRan ==
    /\ RowOf(rows, last.title) # NoRow
    /\ RowOf(rows, last.title).updated_at = last.at

\* C11: save_roi_inputs never raises to its caller: for every title, mapping
\* and store state it returns a boolean, true exactly when the upsert was
\* executed and false on any failure.
C11_SaveNeverRaises ==
    last.op = "save" =>
        /\ last.returned \in {"True", "False"}
        /\ (last.returned = "True" <=> UpsertRan)

\* C11 witness: a mapping with null values on an open connection is refused
C11_Witness ==
    /\ last.op = "save"
    /\ connection = "open"
    /\ \E k \in DOMAIN last.inputs : last.inputs[k] = None
    /\ last.returned = "False"
    /\ ~UpsertRan

\* C12: whenever save_roi_inputs returns false the set of rows is unchanged.
C12_FailedSaveWritesNothing ==
    [][ \A title \in Titles : \A c \in SaveCalls :
          (Save(title, c[1], c[2]) /\ ~last'.result) => rows' = rows ]_vars

\* C12 witness: a refused save on a title that has a row, the row untouched
C12_Witness ==
    /\ last.op = "save"
    /\ ~last.result
    /\ last.prev # NoRow
    /\ RowOf(rows, last.title) = last.prev
    /\ Cardinality(rows) = MaxTitles

\* C13: on a connected store delete_roi_inputs(title) returns false and
\* changes nothing when title has no row; when it has one it returns true,
\* removes exactly that row, and load_roi_inputs(title) then returns absent.
C13_DeleteCorrect ==
    [][ \A title \in Titles :
          (Delete(title) /\ connection = "open") =>
             /\ (RowsOf(rows, title) = {} =>
                    /\ last'.returned = "False"
                    /\ rows' = rows)
             /\ (RowsOf(rows, title) # {} =>
                    /\ last'.returned = "True"
                    /\ \A r \in rows : r \in rows' <=> r.use_case_title # title
                    /\ rows' \subseteq rows
                    /\ load_roi_inputs(rows', connection', title) = None) ]_vars

\* C13 witness: a row deleted while another title keeps its row
C13_Witness ==
    /\ last.op = "delete"
    /\ last.returned = "True"
    /\ last.prev # NoRow
    /\ RowOf(rows, last.title) = NoRow
    /\ rows # {}
    /\ connection = "open"

\* what a successful save wrote into the nine numeric and score columns
Written(k) ==
    IF k \in DOMAIN last.inputs THEN last.inputs[k] ELSE ColumnDefault(k)

C15_EnumerationOrder ==
    connection = "open" =>
        \A a \in load_all_roi_inputs(rows, connection) :
        \A g \in get_saved_use_cases(rows, connection) :
            /\ Len(a.items) = Cardinality(rows)
            /\ Len(g.items) = Cardinality(rows)
            /\ \A i \in 1..Len(g.items) : a.items[i][1] = g.items[i]
            /\ {g.items[i] : i \in 1..Len(g.items)}
                 = {r.use_case_title : r \in rows}
            /\ \A i \in 1..Len(g.items) : \A j \in 1..Len(g.items) :
                  i < j => RowOf(rows, g.items[i]).updated_at
                             >= RowOf(rows, g.items[j]).updated_at
            /\ (Saved => g.items[1] = last.title)

\* C15 witness: the older of two titles saved again, which moves it first
C15_Witness ==
    /\ Saved
    /\ connection = "open"
    /\ Cardinality(rows) = 2
    /\ last.prev # NoRow
    /\ \E r \in rows : r.use_case_title # last.title
                        /\ r.updated_at > last.prev.updated_at
    /\ \A g \in get_saved_use_cases(rows, connection) : g.items[1] = last.title

\* C16: close() can be called any number of times without raising, and after
\* close() every store operation returns its failure value instead of
\* raising: false for save and delete, absent for load, an empty mapping for
\* load_all and an empty list for get_saved_use_cases.
C16_ClosedStoreFails ==
    /\ last.op = "close" => last.returned = "None"
    /\ (connection = "closed" /\ last.op \in StoreOps) =>
          CASE last.op \in {"save", "delete"} -> last.returned = "False"
            [] last.op = "load" -> last.result = None
            [] last.op = "load_all" ->
                  last.result = [t |-> "dict", items |-> << >>]
            [] last.op = "get_saved" ->
                  last.result = [t |-> "list", items |-> << >>]
    /\ connection = "closed" =>
          /\ \A title \in Titles :
                load_roi_inputs(rows, connection, title) = None
          /\ \A title \in Titles :
                delete_returns(rows, connection, title) = "False"

\* C16 witness: a load on the closed store for a title that has a row
C16_Witness ==
    /\ connection = "closed"
    /\ last.op = "load"
    /\ RowOf(rows, last.title) # NoRow
    /\ last.result = None

(***************************************************************************)
(* Properties of the render pass (SpecApp)                                 *)
(***************************************************************************)
Rendered == pass.op = "render"

\* C17 as stated: if the store is unreachable when a session first opens
\* it, no later render pass of that session reads from or writes to the
\* store.
C17_InMemoryOnly ==
    (Rendered /\ pass.first_failed) => (~pass.read /\ ~pass.wrote)

\* the nine numeric and score columns of the row of a title are unchanged
\* by the step
RowKept(title) ==
    /\ RowOf(rows', title) # NoRow
    /\ \A k \in FieldKeys : RowOf(rows', title)[k] = RowOf(rows, title)[k]

\* C18 as stated: across render passes with the store going down and coming
\* back, a saved row keeps its stored values unless the user of the session
\* edits the fields of that use case.
C18_OutageKeepsRows ==
    [][ \A title \in Titles :
          (RowOf(rows, title) # NoRow /\ title \notin pass'.edited
                /\ pass'.op # "delete")
             => RowKept(title) ]_vars

\* C19: in every aggregation pass a title present in both the bulk load and
\* the in-memory edit set is summarised from the in-memory values; a title
\* present in only one of the two is taken from that one.
C19_MergePrecedence ==
    Rendered =>
        LET stored == pass.consolidated
            memory == pass.session_roi_data
            source(title) ==
                IF title \in DOMAIN memory THEN memory[title]
                ELSE stored[title]
            used == [title \in DOMAIN stored \cup DOMAIN memory |->
                        source(title)]
        IN  /\ pass.all_roi_data = used
            /\ \A title \in DOMAIN pass.roi_summary_data :
                  /\ title \in DOMAIN used
                  /\ pass.roi_summary_data[title]
                        = summary_row(title, source(title))
            /\ pass.totals = totals(roi_summary_data(used))

\* C19 witness: a title edited while the store was away is summarised from
\* the edit, not from its row
C19_Witness ==
    /\ Rendered
    /\ \E title \in DOMAIN pass.consolidated \cap DOMAIN pass.session_roi_data :
          /\ \E k \in FieldKeys :
                pass.consolidated[title][k] # pass.session_roi_data[title][k]
          /\ title \in DOMAIN pass.roi_summary_data
          /\ pass.roi_summary_data[title]
                = summary_row(title, pass.session_roi_data[title])
          /\ pass.roi_summary_data[title]
                # summary_row(title, pass.consolidated[title])

\* the field holds a number other than 0
NonZero(inp, k) == k \in DOMAIN inp /\ IsNum(inp[k]) /\ inp[k].n # 0

Meaningful(inp) ==
    \/ NonZero(inp, "labor_impact_hours")
    \/ NonZero(inp, "cost_avoidance_annual")
    \/ NonZero(inp, "revenue_impact_annual")

\* C20: a merged record gets a summary row and counts in the totals if and
\* only if one of labor_impact_hours, cost_avoidance_annual and
\* revenue_impact_annual is non-zero and non-null, whatever its
\* time_to_value_hours.
C20_HasDataFilter ==
    Rendered =>
        LET counted == {title \in DOMAIN pass.all_roi_data :
                            Meaningful(pass.all_roi_data[title])}
            rowsOfCounted ==
                [title \in counted |->
                    summary_row(title, pass.all_roi_data[title])]
        IN  /\ DOMAIN pass.roi_summary_data = counted
            /\ pass.totals.total_annual_benefits
                  = SumOver(rowsOfCounted, "annual_benefit")
            /\ pass.totals.total_implementation_costs
                  = SumOver(rowsOfCounted, "impl_cost")

\* C20 witness: a record with effort but no benefit is left out while
\* another record makes the summary
C20_Witness ==
    /\ Rendered
    /\ \E title \in DOMAIN pass.all_roi_data :
          /\ ~Meaningful(pass.all_roi_data[title])
          /\ NonZero(pass.all_roi_data[title], "time_to_value_hours")
          /\ summary_row(title, pass.all_roi_data[title]).impl_cost # Whole(0)
          /\ title \notin DOMAIN pass.roi_summary_data
    /\ DOMAIN pass.roi_summary_data # {}
    /\ pass.totals.total_implementation_costs
          = SumOver(pass.roi_summary_data, "impl_cost")

(***************************************************************************)
(* Further properties of the formula engine, the API client and the store  *)
(***************************************************************************)
\* C22: for a record whose labor_cost_hourly is explicitly 0 the formulas
\* use the rate 0: labor_savings_monthly = 0, implementation_cost = 0 and
\* annual_roi_percentage = 0; the default rate 100 is not substituted.
C22_ExplicitZeroRate ==
    (Calculated /\ NonNegativeNumeric(call.arg)
                /\ call.arg.labor_cost_hourly = Whole(0)) =>
        /\ call.result.t = "result"
        /\ call.result.labor_savings_monthly = Whole(0)
        /\ call.result.implementation_cost = Whole(0)
        /\ call.result.annual_roi_percentage = Whole(0)

Fetched == call.op = "fetch"

\* the payload is an object with a list under one of the four keys
ExposesList(data) ==
    data.t = "dict" /\ \E i \in 1..Len(wrapper_keys) :
        wrapper_keys[i] \in DOMAIN data.d /\ data.d[wrapper_keys[i]].t = "list"

\* C26: fetch_use_cases returns a bare list payload itself, the list under
\* the first of the keys data, use_cases, results, items of a wrapping
\* object, and no data for every other payload (an object with no list under
\* those keys included) and for every failed request; it makes one request.
C26_PayloadShapes ==
    Fetched =>
        LET data == call.arg.data
            good == call.arg.kind = "status" /\ call.arg.status_code = 200
        IN  /\ call.requests = 1
            /\ (good /\ data.t = "list") => call.result = data
            /\ (good /\ ExposesList(data)) =>
                  \E i \in 1..Len(wrapper_keys) :
                     /\ wrapper_keys[i] \in DOMAIN data.d
                     /\ data.d[wrapper_keys[i]].t = "list"
                     /\ \A j \in 1..(i - 1) :
                           wrapper_keys[j] \in DOMAIN data.d =>
                              data.d[wrapper_keys[j]].t # "list"
                     /\ call.result = data.d[wrapper_keys[i]]
            /\ (~good \/ (data.t # "list" /\ ~ExposesList(data))) =>
                  call.result = None

\* C30: on a connected store, save_roi_inputs with a mapping in which a
\* numeric or score key is present with a null value returns false and
\* writes nothing; a mapping in which keys are absent is saved with the
\* column default in their place (0 for hours and amounts, 100 for rates,
\* 3 for scores).
C30_NullRefusedAbsentDefaulted ==
    [][ \A title \in Titles : \A c \in SaveCalls :
          (Save(title, c[1], c[2]) /\ connection = "open") =>
             IF \E k \in FieldKeys \cap DOMAIN c[1] : c[1][k] = None
             THEN /\ last'.returned = "False"
                  /\ rows' = rows
             ELSE /\ last'.returned = "True"
                  /\ \A k \in FieldKeys :
                        RowOf(rows', title)[k] =
                           IF k \in DOMAIN c[1] THEN c[1][k]
                           ELSE ColumnDefault(k) ]_vars

\* C30 witness: the adapter's blank record is refused for a title whose row
\* was written from a mapping with only the hours in it
C30_Witness ==
    /\ last.op = "save"
    /\ last.inputs = InputsUnset
    /\ last.returned = "False"
    /\ last.prev # NoRow
    /\ RowOf(rows, last.title) = last.prev
    /\ \A k \in FieldKeys :
          last.prev[k] = IF k \in DOMAIN InputsPartial THEN InputsPartial[k]
                         ELSE ColumnDefault(k)
    /\ \E k \in FieldKeys : k \notin DOMAIN InputsPartial

(***************************************************************************)
(* Further properties of the render pass (SpecApp)                         *)
(***************************************************************************)
\* the sort key the claim gives a row: its displayed ROI, 0 for N/A
KeyOf(row) ==
    IF row.roi_display = Str("N/A") THEN Whole(0)
    ELSE Num(row.roi_display.tenths, 10)

\* C25: a summary row shows "Not Set" for the implementation cost exactly
\* when implementation_cost is 0, and "N/A" for ROI % exactly when
\* implementation_cost is 0 or the ROI is infinite; sorting by ROI % places
\* an "N/A" row as a row with ROI 0.
C25_Sentinels ==
    Rendered =>
        LET summary == pass.roi_summary_data
        IN  /\ \A c \in DOMAIN summary :
                 /\ summary[c].impl_cost_display = Str("Not Set")
                       <=> summary[c].impl_cost = Whole(0)
                 /\ summary[c].roi_display = Str("N/A")
                       <=> (summary[c].impl_cost = Whole(0)
                            \/ summary[c].roi_percentage = Inf)
            /\ \A asc \in BOOLEAN : \A q \in sort_by_roi(summary, asc) :
                  \A i \in 1..Len(q) : \A j \in 1..Len(q) :
                     i < j => IF asc
                              THEN RLe(KeyOf(summary[q[i]]), KeyOf(summary[q[j]]))
                              ELSE RLe(KeyOf(summary[q[j]]), KeyOf(summary[q[i]]))

\* C25 witness: a row without effort shows both sentinels and sorts below a
\* row with a positive ROI
C25_Witness ==
    /\ Rendered
    /\ \E c \in DOMAIN pass.roi_summary_data :
       \E e \in DOMAIN pass.roi_summary_data :
          /\ pass.roi_summary_data[c].impl_cost_display = Str("Not Set")
          /\ pass.roi_summary_data[c].roi_display = Str("N/A")
          /\ pass.roi_summary_data[e].roi_display # Str("N/A")
          /\ RLt(Whole(0), pass.roi_summary_data[e].roi_percentage)
          /\ sort_by_roi(pass.roi_summary_data, FALSE) = {<<e, c>>}

\* C21: the total annual benefit and the total implementation cost are the
\* sums of annual_benefit and implementation_cost over exactly the records
\* with a summary row, the total net is their difference and the sum of the
\* rows' net benefits, and the overall ROI % is net / total cost * 100, or 0
\* when the total cost is 0.
C21_AggregationTotals ==
    Rendered =>
        LET figures ==
                [c \in DOMAIN pass.roi_summary_data |->
                    calculate_roi_with_inputs(pass.all_roi_data[c])]
            benefits == SumOver(figures, "annual_benefit")
            costs == SumOver(figures, "implementation_cost")
        IN  /\ pass.totals.total_annual_benefits = benefits
            /\ pass.totals.total_implementation_costs = costs
            /\ pass.totals.total_net_benefit = RSub(benefits, costs)
            /\ pass.totals.total_net_benefit
                  = SumOver(pass.roi_summary_data, "net_benefit")
            /\ pass.totals.overall_roi =
                  IF costs = Whole(0) THEN Whole(0)
                  ELSE RMul(RDiv(RSub(benefits, costs), costs), Whole(100))

\* C21 witness: two rows, one of them without cost, and a portfolio ROI
C21_Witness ==
    /\ Rendered
    /\ Cardinality(DOMAIN pass.roi_summary_data) = 2
    /\ \E c \in DOMAIN pass.roi_summary_data :
          pass.roi_summary_data[c].impl_cost = Whole(0)
    /\ RLt(Whole(0), pass.totals.total_implementation_costs)
    /\ RLt(Whole(0), pass.totals.overall_roi)
    /\ pass.totals.total_net_benefit # pass.totals.total_annual_benefits

\* the step is one run of display_roi_analysis
PassStep == pass'.passes = pass.passes + 1

\* the nine numeric and score fields of the row of a title equal those of
\* a record
RowHolds(table, title, record) ==
    /\ RowOf(table, title) # NoRow
    /\ \A k \in FieldKeys : RowOf(table, title)[k] = record[k]

\* C23: at the end of every completed render pass with the store connected
\* the store holds a row for the selected use case whose nine numeric and
\* score fields equal the in-memory working record of that title; a use
\* case viewed for the first time gets a row with 0 for amounts and hours,
\* 100 for rates and 3 for scores.
C23_WriteThrough ==
    [][ (PassStep /\ pass'.op = "render" /\ pass'.storage) =>
          /\ RowHolds(rows', pass'.title, session'.roi_inputs[pass'.title])
          /\ (pass'.created /\ ~pass'.typed
                /\ session.widgets.title # pass'.title) =>
                RowHolds(rows', pass'.title,
                         [k \in FieldKeys |-> ColumnDefault(k)]) ]_vars

\* C23 witness: a second use case viewed for the first time, its row
\* written with the defaults
C23_Witness ==
    /\ Rendered
    /\ pass.storage /\ pass.created /\ ~pass.typed /\ pass.after_delete = 0
    /\ Cardinality(rows) = 2
    /\ RowHolds(rows, pass.title, [k \in FieldKeys |-> ColumnDefault(k)])
    /\ RowHolds(rows, pass.title, session.roi_inputs[pass.title])

\* C27: the summary and totals of a pass are computed from the in-memory
\* overlay as it stood when the pass began: what the pass itself writes
\* into the working record is not in them, and is in those of the next
\* pass.
C27_SummaryFromStartOfPass ==
    [][ PassStep =>
          /\ pass'.session_roi_data = session.roi_inputs
          /\ pass'.roi_summary_data =
                roi_summary_data(Update(pass'.consolidated, session.roi_inputs))
          /\ pass'.totals = totals(pass'.roi_summary_data)
          /\ pass'.op = "render" =>
                \A k \in FieldKeys :
                   session'.roi_inputs[pass'.title][k]
                      = session'.widgets.values[k] ]_vars

\* C27 witness: the summary shows what an earlier pass typed for a title,
\* not what this pass typed for it
C27_Witness ==
    /\ Rendered
    /\ pass.typed
    /\ pass.title \in DOMAIN pass.roi_summary_data
    /\ pass.title \in DOMAIN pass.session_roi_data
    /\ pass.roi_summary_data[pass.title]
          = summary_row(pass.title, pass.session_roi_data[pass.title])
    /\ has_data(session.roi_inputs[pass.title])
    /\ pass.roi_summary_data[pass.title]
          # summary_row(pass.title, session.roi_inputs[pass.title])

\* C28: after a delete of title T that returned true, the render pass that
\* follows with the store connected and T selected puts T back into the
\* overlay from the adapter's record and saves it: at its end the store has
\* a row for T with the widget values and get_saved_use_cases lists T.
C28_DeleteUndoneBySelection ==
    [][ (PassStep /\ pass.rerun /\ pass'.op = "render" /\ pass'.storage
            /\ pass'.title = pass.clicked) =>
          /\ pass.clicked \notin DOMAIN session.roi_inputs
          /\ RowOf(rows, pass.clicked) = NoRow
          /\ session'.roi_inputs[pass.clicked] =
                Update(extract_roi_inputs_from_api(use_case_data(pass.clicked)),
                       session'.widgets.values)
          /\ RowHolds(rows', pass.clicked, session'.widgets.values)
          /\ \A g \in get_saved_use_cases(rows', "open") :
                \E i \in 1..Len(g.items) : g.items[i] = pass.clicked ]_vars

\* C28 witness: the pass after the delete of the selected title has run
C28_Witness ==
    /\ Rendered
    /\ pass.after_delete = pass.title
    /\ pass.storage /\ pass.created
    /\ RowHolds(rows, pass.title, session.roi_inputs[pass.title])

C24_SingleSnapshot ==
    pass.op = "aggregate" =>
        /\ pass.all_roi_data = merge(pass.consolidated, pass.session_roi_data)
        /\ session_state_get(session, EmptyMapping) = pass.session_roi_data
        /\ \A c \in DOMAIN pass.roi_summary_data :
              pass.roi_summary_data[c] = summary_row(c, pass.all_roi_data[c])
        /\ pass.pc = "done" =>
              /\ pass.roi_summary_data = roi_summary_data(pass.all_roi_data)
              /\ [k \in {"total_annual_benefits", "total_implementation_costs",
                         "total_net_benefit", "overall_roi"} |-> pass[k]]
                    = totals(roi_summary_data(pass.all_roi_data))

\* a finished aggregation over stored and in-memory records whose summary
\* lists a stored record that another session deleted, or rewrote with other
\* values, while the loop ran
C24_Witness ==
    /\ pass.op = "aggregate" /\ pass.pc = "done"
    /\ pass.session_roi_data # EmptyMapping
    /\ \E c \in DOMAIN pass.roi_summary_data :
          /\ c \notin DOMAIN pass.session_roi_data
          /\ RowOf(pass.rows_at_build, c) # NoRow
          /\ \/ RowOf(rows, c) = NoRow
             \/ row_to_inputs(RowOf(rows, c)) # pass.all_roi_data[c]

====
